---- MODULE Spec2Model ----
(***************************************************************************)
(* event-hub: token/session authentication (accounts/views.py) and the     *)
(* event CRUD, filter and search handlers (events/views.py) over the user, *)
(* token, session and event tables.                                        *)
(*                                                                         *)
(* Strings are sequences of one-character strings, so that the prefix and  *)
(* substring lookups of the search are computed character by character.    *)
(* Token keys are drawn fresh from a counter: the key generator is taken   *)
(* to never repeat a key.                                                  *)
(***************************************************************************)
EXTENDS Integers, Sequences, FiniteSets, TLC

\* ---------------------------------------------------------------- bounds
\* users registered, token keys generated, events created, requests in
\* flight, events in the tables the list is queried over, events in the
\* tables the list is paged over
MaxUsers == 2
MaxKeys == 2
MaxEvents == 2
MaxProcs == 2
MaxQueryEvents == 2
MaxPageEvents == 21

\* ------------------------------------------------------------- constants
NoUser == 0
NoKey == 0
BadKey == -1
NoEmail == "-"
PAGE_SIZE == 10

HTTP_200_OK == 200
HTTP_201_CREATED == 201
HTTP_204_NO_CONTENT == 204
HTTP_400_BAD_REQUEST == 400
HTTP_401_UNAUTHORIZED == 401
HTTP_403_FORBIDDEN == 403
HTTP_404_NOT_FOUND == 404
HTTP_500_INTERNAL_SERVER_ERROR == 500

UserIds == 1..MaxUsers
EventIds == 1..MaxEvents
Procs == 1..MaxProcs

Emails == {"a@x.io", "b@x.io", "c@x.io"}
Passwords == {"pw1", "pw2"}
WeakPassword == "1"

\* --------------------------------------------------------------- strings
Py == <<"P", "y">>
py == <<"p", "y">>
Art == <<"A", "r">>
Empty == <<>>

Lower(c) ==
    CASE c = "P" -> "p"
      [] c = "Y" -> "y"
      [] c = "A" -> "a"
      [] c = "R" -> "r"
      [] OTHER -> c

LowerStr(s) == [i \in 1..Len(s) |-> Lower(s[i])]

\* name__istartswith
IStartsWith(s, t) ==
    /\ Len(t) <= Len(s)
    /\ SubSeq(LowerStr(s), 1, Len(t)) = LowerStr(t)

\* description__icontains, location__icontains
IContains(s, t) ==
    \E i \in 0..(Len(s) - Len(t)) :
        SubSeq(LowerStr(s), i + 1, i + Len(t)) = LowerStr(t)

IsSeparator(c) == c \in {" ", ","}

\* the search parameter split at whitespace and commas into its terms
RECURSIVE SplitTerms(_, _)
SplitTerms(s, cur) ==
    IF s = <<>>
    THEN IF cur = <<>> THEN <<>> ELSE <<cur>>
    ELSE IF IsSeparator(Head(s))
         THEN (IF cur = <<>> THEN <<>> ELSE <<cur>>) \o SplitTerms(Tail(s), <<>>)
         ELSE SplitTerms(Tail(s), Append(cur, Head(s)))

SearchTerms(param) == SplitTerms(param, <<>>)

\* str.strip(): the string without its leading and trailing whitespace
IsSpace(c) == c = " "

RECURSIVE LStrip(_)
LStrip(s) == IF s # <<>> /\ IsSpace(Head(s)) THEN LStrip(Tail(s)) ELSE s

RECURSIVE RStrip(_)
RStrip(s) ==
    IF s # <<>> /\ IsSpace(s[Len(s)]) THEN RStrip(SubSeq(s, 1, Len(s) - 1)) ELSE s

Strip(s) == RStrip(LStrip(s))

\* ----------------------------------------------------------------- state
VARIABLES
    users,        \* user table: id -> [email, password]
    tokens,       \* token table: set of rows [key, user]
    nextKey,      \* the next key the generator hands out
    session,      \* the user the browser's session is logged in as, or NoUser
    events,       \* event table: id -> the row (organizer, name, date, ...)
    nextEventId,  \* the auto-increment id of the next event
    procs,        \* requests in flight (the interleaved handlers)
    revoked,      \* history: the token rows the logouts deleted
    last          \* the last request answered and its response

vars == <<users, tokens, nextKey, session, events, nextEventId, procs, revoked, last>>

authVars == <<users, tokens, nextKey, session, revoked>>
eventVars == <<events, nextEventId>>


\* ------------------------------------------------------------ responses
\* The request answered last: the operation, the Authorization token the
\* caller presented (key), the inputs the claims speak about, and the
\* response (status, caller the request was authenticated as, token
\* returned, page of results, event returned as body), with the number of
\* token rows it deleted and the body of a Create (data).
NoResp ==
    [op |-> "none", status |-> 0, caller |-> NoUser, key |-> NoKey,
     target |-> 0, token |-> NoKey, email |-> NoEmail, password |-> "",
     params |-> <<>>, results |-> <<>>, count |-> 0, next |-> FALSE,
     previous |-> FALSE, deleted |-> 0, data |-> <<>>, body |-> <<>>]

\* ------------------------------------------------------- user and tokens
Registered == DOMAIN users

EmailTaken(e) == \E u \in Registered : users[u].email = e

\* the registration serializer: a new email and a password passing the policy
RegistrationValid(e, pw) == ~EmailTaken(e) /\ pw # WeakPassword

\* the login serializer: the user the credentials authenticate, or NoUser
Credentials(e, pw) ==
    IF \E u \in Registered : users[u].email = e /\ users[u].password = pw
    THEN CHOOSE u \in Registered : users[u].email = e /\ users[u].password = pw
    ELSE NoUser

\* SELECT ... FROM authtoken_token WHERE user_id = u
TokenRows(tbl, u) == {t \in tbl : t.user = u}

\* the unique constraints of the token table: key (primary key), user (one-to-one)
UniqueViolationNone(tbl, row) == FALSE

UniqueViolation(tbl, row) ==
    \E t \in tbl : t.user = row.user \/ t.key = row.key

\* user.auth_token.delete(): DELETE ... WHERE key IN keys
DeleteNothing(tbl, keys) == tbl

DeleteTokens(tbl, keys) == {t \in tbl : t.key \notin keys}

\* Token.objects.get_or_create(user=u), run without interruption: the row
\* found, or a row with a fresh key inserted
HasToken(u) == TokenRows(tokens, u) # {}

TokenKeyOf(tbl, u) ==
    IF TokenRows(tbl, u) = {} THEN NoKey ELSE (CHOOSE t \in TokenRows(tbl, u) : TRUE).key

GetWithoutCreate(u) == tokens

GetOrCreateTable(u) ==
    IF HasToken(u) THEN tokens
    ELSE tokens \cup {[key |-> nextKey, user |-> u]}

GetOrCreateNextKey(u) == IF HasToken(u) THEN nextKey ELSE nextKey + 1

\* the generator's keys are bounded: a request that needs a key waits for one
CanIssue(u) == HasToken(u) \/ nextKey <= MaxKeys

\* ---------------------------------------------------------- authentication
KeyOwner(k) ==
    IF \E t \in tokens : t.key = k
    THEN (CHOOSE t \in tokens : t.key = k).user
    ELSE NoUser

\* The authenticators in order: the token of the Authorization header when
\* one is presented (an unknown token fails the request, the session is not
\* consulted), else the session of the cookie. NoUser: not authenticated.
Authenticate(key, cookie) == IF key # NoKey THEN KeyOwner(key) ELSE cookie

\* what a client can present: no key, any key ever issued, a key never issued
PresentableKeys == {NoKey, BadKey} \cup (1..(nextKey - 1))

\* Requests come from one browser, which sends its session cookie, and from
\* clients that send no cookie (and drop the one a login sets). browser says
\* which; the user of the cookie's session, NoUser when there is none:
Cookie(browser) == IF browser THEN session ELSE NoUser

\* login(request, user): the session of the request is logged in as user
SessionLogin(browser, u) == IF browser THEN u ELSE session

\* logout(request): the session of the request is flushed
SessionLogout(browser) == IF browser THEN NoUser ELSE session


\* ------------------------------------------------- accounts: the handlers
\* if serializer.is_valid(): in UserRegistrationView.post
RegisterAcceptedAlways(e, pw) == TRUE

RegisterAccepted(e, pw) == RegistrationValid(e, pw)

\* if serializer.is_valid(): in UserLoginView.post; the user logged in
LoginUser(e, pw) == Credentials(e, pw)

\* POST /register (UserRegistrationView.post)
Register(e, pw) ==
    /\ IF RegisterAccepted(e, pw)
       THEN /\ Len(users) < MaxUsers
            /\ nextKey <= MaxKeys
            /\ users' = Append(users, [email |-> e, password |-> pw])
            /\ tokens' = tokens \cup {[key |-> nextKey, user |-> Len(users) + 1]}
            /\ nextKey' = nextKey + 1
            /\ last' = [NoResp EXCEPT !.op = "register", !.status = HTTP_201_CREATED,
                                      !.target = Len(users) + 1, !.token = nextKey,
                                      !.email = e, !.password = pw]
       ELSE /\ UNCHANGED <<users, tokens, nextKey>>
            /\ last' = [NoResp EXCEPT !.op = "register", !.status = HTTP_400_BAD_REQUEST,
                                      !.email = e, !.password = pw]
    /\ UNCHANGED <<session, revoked, eventVars, procs>>

\* POST /login (UserLoginView.post)
Login(e, pw, browser) ==
    LET u == LoginUser(e, pw) IN
    /\ IF u # NoUser
       THEN /\ CanIssue(u)
            /\ session' = SessionLogin(browser, u)
            /\ tokens' = GetOrCreateTable(u)
            /\ nextKey' = GetOrCreateNextKey(u)
            /\ last' = [NoResp EXCEPT !.op = "login", !.status = HTTP_200_OK,
                                      !.target = u,
                                      !.token = TokenKeyOf(GetOrCreateTable(u), u),
                                      !.email = e, !.password = pw]
       ELSE /\ UNCHANGED <<session, tokens, nextKey>>
            /\ last' = [NoResp EXCEPT !.op = "login", !.status = HTTP_400_BAD_REQUEST,
                                      !.email = e, !.password = pw]
    /\ UNCHANGED <<users, revoked, eventVars, procs>>

\* request.user.auth_token: the token the authentication cached on the user
\* (token authentication), else the row looked up by user (may be none)
AuthTokenKeys(key, c) ==
    IF key # NoKey THEN {key} ELSE {t.key : t \in TokenRows(tokens, c)}

\* try: ... delete() except (AttributeError, Token.DoesNotExist): pass, then
\* the response: 200 whether or not there was a row to delete
LogoutStatusRaising(keys) ==
    IF {t \in tokens : t.key \in keys} = {}
    THEN HTTP_500_INTERNAL_SERVER_ERROR ELSE HTTP_200_OK

LogoutStatus(keys) == HTTP_200_OK

\* the rows a DELETE of keys targets
Targeted(keys) == {t \in tokens : t.key \in keys}

\* POST /logout (UserLogoutView.post)
Logout(key, browser) ==
    LET c == Authenticate(key, Cookie(browser)) IN
    /\ IF c = NoUser
       THEN /\ UNCHANGED <<tokens, session, revoked>>
            /\ last' = [NoResp EXCEPT !.op = "logout", !.status = HTTP_401_UNAUTHORIZED,
                                      !.key = key]
       ELSE /\ tokens' = DeleteTokens(tokens, AuthTokenKeys(key, c))
            /\ session' = SessionLogout(browser)
            /\ revoked' = revoked \cup Targeted(AuthTokenKeys(key, c))
            /\ last' = [NoResp EXCEPT !.op = "logout",
                                      !.status = LogoutStatus(AuthTokenKeys(key, c)),
                                      !.caller = c, !.key = key,
                                      !.deleted = Cardinality(Targeted(AuthTokenKeys(key, c)))]
    /\ UNCHANGED <<users, nextKey, eventVars, procs>>

\* GET /user (UserDetailView, retrieve)
GetProfile(key, browser) ==
    LET c == Authenticate(key, Cookie(browser)) IN
    /\ last' = IF c = NoUser
               THEN [NoResp EXCEPT !.op = "profile", !.status = HTTP_401_UNAUTHORIZED,
                                   !.key = key]
               ELSE [NoResp EXCEPT !.op = "profile", !.status = HTTP_200_OK,
                                   !.caller = c, !.key = key, !.target = c,
                                   !.email = users[c].email]
    /\ UNCHANGED <<authVars, eventVars, procs>>

\* the user serializer on update: the email, when supplied, is not the email
\* of another user
EmailFree(c, e) == \A v \in Registered : v # c => users[v].email # e

\* PUT/PATCH /user (UserDetailView, update); e = NoEmail: no email supplied
UpdateProfile(key, browser, e) ==
    LET c == Authenticate(key, Cookie(browser)) IN
    /\ IF c = NoUser
       THEN /\ UNCHANGED users
            /\ last' = [NoResp EXCEPT !.op = "profile_update",
                                      !.status = HTTP_401_UNAUTHORIZED, !.key = key]
       ELSE IF e # NoEmail /\ ~EmailFree(c, e)
       THEN /\ UNCHANGED users
            /\ last' = [NoResp EXCEPT !.op = "profile_update",
                                      !.status = HTTP_400_BAD_REQUEST,
                                      !.caller = c, !.key = key, !.email = e]
       ELSE /\ users' = IF e = NoEmail THEN users ELSE [users EXCEPT ![c].email = e]
            /\ last' = [NoResp EXCEPT !.op = "profile_update", !.status = HTTP_200_OK,
                                      !.caller = c, !.key = key, !.target = c,
                                      !.email = e]
    /\ UNCHANGED <<tokens, nextKey, session, revoked, eventVars, procs>>


\* ---------------------------------------------------------------- events
\* the category table (filled by the admin site, read-only to the handlers)
CategoryName == [c \in {1, 2} |-> IF c = 1 THEN Py ELSE Art]

CategoryIds == DOMAIN CategoryName

\* EventSerializer.Meta: the fields a client may write
WritableWithOrganizer == {"name", "date", "location", "description", "categories", "organizer"}

WritableFields == {"name", "date", "location", "description", "categories"}

RequiredFields == {"name", "date", "location"}

\* fields of base overwritten by those of upd
Override(base, upd) ==
    [f \in DOMAIN base \cup DOMAIN upd |-> IF f \in DOMAIN upd THEN upd[f] ELSE base[f]]

\* the character fields of the serializer (CharField of the model's
\* CharField and TextField)
CharFields == {"name", "location", "description"}

\* to_internal_value of a field: a character field trims its value
\* (trim_whitespace), the other fields keep theirs
ToInternalValueAsGiven(f, v) == v

ToInternalValue(f, v) == IF f \in CharFields THEN Strip(v) ELSE v

\* serializer.validated_data: the writable fields of the request data
ValidatedData(data) ==
    [f \in DOMAIN data \cap WritableFields |-> ToInternalValue(f, data[f])]

\* serializer.is_valid(): required fields present unless partial, name and
\* location not blank once trimmed, every category an existing one
IsValid(data, partial) ==
    /\ partial \/ RequiredFields \subseteq DOMAIN data
    /\ "name" \in DOMAIN data => Strip(data.name) # Empty
    /\ "location" \in DOMAIN data => Strip(data.location) # Empty
    /\ "categories" \in DOMAIN data => data.categories \subseteq CategoryIds

\* the model's defaults for the optional fields
EventDefaults == [description |-> Empty, categories |-> {}]

\* perform_create: serializer.save(organizer=request.user)
SaveCreate(data, c) ==
    Override(Override(EventDefaults, ValidatedData(data)), [organizer |-> c])

\* IsOrganizerOrReadOnly.has_object_permission
IsOrganizerOrReadOnly(safe, ev, c) == safe \/ ev.organizer = c

Exists(id) == id \in DOMAIN events

\* the table without row id
RemainingNone(id) == [i \in {} |-> events[i]]

Remaining(id) == [i \in DOMAIN events \ {id} |-> events[i]]

EventResp(op, status, c, key, id) ==
    [NoResp EXCEPT !.op = op, !.status = status, !.caller = c, !.key = key,
                   !.target = id]

\* auto_now_add, auto_now: the timestamps of a row saved at time t
Created(t) == [created_at |-> t, updated_at |-> t]

Touched(t) == [updated_at |-> t]

\* EventSerializer.to_representation: the fields of Meta.fields, organizer
\* as the organizer's email, category_names from the categories
ToRepresentation(ev, id) ==
    [id |-> id, name |-> ev.name, date |-> ev.date, location |-> ev.location,
     description |-> ev.description, categories |-> ev.categories,
     category_names |-> {CategoryName[k] : k \in ev.categories},
     created_at |-> ev.created_at, updated_at |-> ev.updated_at,
     organizer |-> users[ev.organizer].email]

\* POST /events (EventListCreateView, create), at time t
Create(key, browser, data, t) ==
    LET c == Authenticate(key, Cookie(browser))
        row == Override(SaveCreate(data, c), Created(t))
    IN
    /\ IF c = NoUser
       THEN /\ UNCHANGED eventVars
            /\ last' = EventResp("create", HTTP_401_UNAUTHORIZED, NoUser, key, 0)
       ELSE IF ~IsValid(data, FALSE)
       THEN /\ UNCHANGED eventVars
            /\ last' = EventResp("create", HTTP_400_BAD_REQUEST, c, key, 0)
       ELSE /\ nextEventId <= MaxEvents
            /\ events' = [i \in DOMAIN events \cup {nextEventId} |->
                            IF i = nextEventId THEN row ELSE events[i]]
            /\ nextEventId' = nextEventId + 1
            /\ last' = [EventResp("create", HTTP_201_CREATED, c, key, nextEventId)
                           EXCEPT !.data = data,
                                  !.body = ToRepresentation(row, nextEventId)]
    /\ UNCHANGED <<authVars, procs>>

\* permission_classes = [IsAuthenticated, IsOrganizerOrReadOnly]: the
\* object-level check of EventDetailView
ObjectPermittedToAll(safe, ev, c) == TRUE

ObjectPermitted(safe, ev, c) == IsOrganizerOrReadOnly(safe, ev, c)

\* EventDetailView before the method's own work: authentication and
\* IsAuthenticated, then get_object (the lookup, then the object-level
\* permission). The status that ends the request, 0 when it goes on.
DeniedPermissionFirst(safe, c, id) ==
    IF c = NoUser THEN HTTP_401_UNAUTHORIZED
    ELSE IF ~safe /\ (~Exists(id) \/ events[id].organizer # c) THEN HTTP_403_FORBIDDEN
    ELSE IF ~Exists(id) THEN HTTP_404_NOT_FOUND
    ELSE 0

Denied(safe, c, id) ==
    IF c = NoUser THEN HTTP_401_UNAUTHORIZED
    ELSE IF ~Exists(id) THEN HTTP_404_NOT_FOUND
    ELSE IF ~ObjectPermitted(safe, events[id], c) THEN HTTP_403_FORBIDDEN
    ELSE 0

\* GET /events/{id} (EventDetailView, retrieve)
Retrieve(key, browser, id) ==
    LET c == Authenticate(key, Cookie(browser)) IN
    /\ last' = IF Denied(TRUE, c, id) # 0
               THEN EventResp("retrieve", Denied(TRUE, c, id), c, key, id)
               ELSE [EventResp("retrieve", HTTP_200_OK, c, key, id)
                        EXCEPT !.body = ToRepresentation(events[id], id)]
    /\ UNCHANGED <<authVars, eventVars, procs>>

\* PUT (partial = FALSE) or PATCH (partial = TRUE) /events/{id}
\* (EventDetailView, update), at time t
Update(key, browser, id, data, partial, t) ==
    LET c == Authenticate(key, Cookie(browser))
        row == Override(Override(events[id], ValidatedData(data)), Touched(t))
    IN
    /\ IF Denied(FALSE, c, id) # 0
       THEN /\ UNCHANGED events
            /\ last' = EventResp("update", Denied(FALSE, c, id), c, key, id)
       ELSE IF ~IsValid(data, partial)
       THEN /\ UNCHANGED events
            /\ last' = EventResp("update", HTTP_400_BAD_REQUEST, c, key, id)
       ELSE /\ events' = [events EXCEPT ![id] = row]
            /\ last' = [EventResp("update", HTTP_200_OK, c, key, id)
                           EXCEPT !.body = ToRepresentation(row, id)]
    /\ UNCHANGED <<authVars, nextEventId, procs>>

\* DELETE /events/{id} (EventDetailView, destroy)
Delete(key, browser, id) ==
    LET c == Authenticate(key, Cookie(browser)) IN
    /\ IF Denied(FALSE, c, id) # 0
       THEN /\ UNCHANGED events
            /\ last' = EventResp("delete", Denied(FALSE, c, id), c, key, id)
       ELSE /\ events' = Remaining(id)
            /\ last' = EventResp("delete", HTTP_204_NO_CONTENT, c, key, id)
    /\ UNCHANGED <<authVars, nextEventId, procs>>

\* ------------------------------------------------------ the list endpoint
\* filterset_fields = ['location', 'categories__name']: exact match on each
\* parameter supplied and not empty; any other parameter is not a filter
FilterMatchesContains(ev, params) ==
    /\ ("location" \in DOMAIN params /\ params.location # Empty)
          => IContains(ev.location, params.location)
    /\ ("categories__name" \in DOMAIN params /\ params.categories__name # Empty)
          => \E c \in ev.categories : CategoryName[c] = params.categories__name

FilterMatches(ev, params) ==
    /\ ("location" \in DOMAIN params /\ params.location # Empty)
          => ev.location = params.location
    /\ ("categories__name" \in DOMAIN params /\ params.categories__name # Empty)
          => \E c \in ev.categories : CategoryName[c] = params.categories__name

\* search_fields = ['^name', 'description', 'location']: one term against
\* the three lookups
TermMatchesAll(ev, term) ==
    /\ IStartsWith(ev.name, term)
    /\ IContains(ev.description, term)
    /\ IContains(ev.location, term)

TermMatches(ev, term) ==
    \/ IStartsWith(ev.name, term)
    \/ IContains(ev.description, term)
    \/ IContains(ev.location, term)

\* the search filter: every term of the parameter matches
SearchMatches(ev, params) ==
    "search" \in DOMAIN params =>
        \A k \in DOMAIN SearchTerms(params.search) :
            TermMatches(ev, SearchTerms(params.search)[k])

\* filter_queryset: the filters, then the search
Queryset(params) ==
    {i \in DOMAIN events : FilterMatches(events[i], params)
                           /\ SearchMatches(events[i], params)}

Min(S) == CHOOSE x \in S : \A y \in S : x <= y

\* the rows in primary-key order
RECURSIVE Ordered(_)
Ordered(S) == IF S = {} THEN <<>> ELSE <<Min(S)>> \o Ordered(S \ {Min(S)})

\* the paginator: the number of pages (an empty first page is allowed)
NumPages(n) == IF n = 0 THEN 1 ELSE (n + PAGE_SIZE - 1) \div PAGE_SIZE

PageNumber(params) == IF "page" \in DOMAIN params THEN params.page ELSE 1

PageOfAll(rows, p) == rows

PageOf(rows, p) ==
    SubSeq(rows, (p - 1) * PAGE_SIZE + 1,
           IF p * PAGE_SIZE < Len(rows) THEN p * PAGE_SIZE ELSE Len(rows))

\* GET /events (EventListCreateView, list)
List(key, browser, params) ==
    LET c == Authenticate(key, Cookie(browser))
        rows == Ordered(Queryset(params))
        p == PageNumber(params)
    IN
    /\ last' = IF c = NoUser
               THEN EventResp("list", HTTP_401_UNAUTHORIZED, NoUser, key, 0)
               ELSE IF p < 1 \/ p > NumPages(Len(rows))
               THEN EventResp("list", HTTP_404_NOT_FOUND, c, key, 0)
               ELSE [EventResp("list", HTTP_200_OK, c, key, 0) EXCEPT
                        !.params = params,
                        !.results = PageOf(rows, p), !.count = Len(rows),
                        !.next = p < NumPages(Len(rows)), !.previous = p > 1]
    /\ UNCHANGED <<authVars, eventVars, procs>>


\* -------------------------------------------------- the requests explored
\* request bodies of Create and Update: complete, without and with the
\* optional fields and a client-supplied organizer; a name alone; invalid
PlainBody == [name |-> Py, date |-> 1, location |-> Art]

FullBody ==
    [name |-> Art, date |-> 1, location |-> Py, description |-> py,
     categories |-> {1}, organizer |-> 2]

NameBody == [name |-> Py, organizer |-> 1]

InvalidBody == [name |-> Empty, date |-> 1, location |-> Art, categories |-> {3}]

Payloads == {PlainBody, FullBody, NameBody, InvalidBody}

\* query strings of List
ListParams ==
    { <<>>,
      [location |-> Art],
      [search |-> py],
      [search |-> <<"a">>, page |-> 1],
      [page |-> 2] }

Idle == [pc |-> "idle", op |-> "none", user |-> NoUser, key |-> NoKey,
         browser |-> FALSE]

Init ==
    /\ users = <<>>
    /\ tokens = {}
    /\ nextKey = 1
    /\ session = NoUser
    /\ events = <<>>
    /\ nextEventId = 1
    /\ procs = [p \in Procs |-> Idle]
    /\ revoked = {}
    /\ last = NoResp

\* the accounts endpoints
AuthNext ==
    \/ \E e \in Emails, pw \in Passwords \cup {WeakPassword} : Register(e, pw)
    \/ \E e \in Emails, pw \in Passwords, browser \in BOOLEAN : Login(e, pw, browser)
    \/ \E key \in PresentableKeys, browser \in BOOLEAN : Logout(key, browser)
    \/ \E key \in PresentableKeys, browser \in BOOLEAN : GetProfile(key, browser)
    \/ \E key \in PresentableKeys, browser \in BOOLEAN, e \in Emails \cup {NoEmail} :
          UpdateProfile(key, browser, e)

\* what the callers of a run present: <<key, browser>>
AllCallers == PresentableKeys \X BOOLEAN

\* bodies of Update with the method: PUT (partial = FALSE) or PATCH
UpdateRequests ==
    {<<PlainBody, FALSE>>, <<FullBody, FALSE>>, <<InvalidBody, FALSE>>, <<NameBody, TRUE>>}

\* the times the clock shows when a row is saved
Times == {1, 2}

\* the events endpoints, for the callers and the times given
EventStep(callers, times) ==
    \/ \E cl \in callers, data \in Payloads, t \in times : Create(cl[1], cl[2], data, t)
    \/ \E cl \in callers, id \in EventIds : Retrieve(cl[1], cl[2], id)
    \/ \E cl \in callers, id \in EventIds, r \in UpdateRequests, t \in times :
          Update(cl[1], cl[2], id, r[1], r[2], t)
    \/ \E cl \in callers, id \in EventIds : Delete(cl[1], cl[2], id)
    \/ \E cl \in callers, params \in ListParams : List(cl[1], cl[2], params)

EventNext == EventStep(AllCallers, Times)

Next == AuthNext \/ EventNext

\* the whole API, one request at a time
Spec == Init /\ [][Next]_vars

\* the accounts endpoints and the event list, from the empty database
AuthAndList ==
    \/ AuthNext
    \/ \E cl \in AllCallers : List(cl[1], cl[2], <<>>)

SpecAuth == Init /\ [][AuthAndList]_vars

\* two users registered, each holding the token its registration issued,
\* the first logged in from the browser
InitEvents ==
    /\ users = <<[email |-> "a@x.io", password |-> "pw1"],
                 [email |-> "b@x.io", password |-> "pw2"]>>
    /\ tokens = {[key |-> 1, user |-> 1], [key |-> 2, user |-> 2]}
    /\ nextKey = 3
    /\ session = 1
    /\ events = <<>>
    /\ nextEventId = 1
    /\ procs = [p \in Procs |-> Idle]
    /\ revoked = {}
    /\ last = NoResp

\* the events endpoints, called with no credentials, with an unknown token
\* (and the browser's cookie), from the browser (the first user) and with the
\* token of the second user
EventCallers == {<<NoKey, FALSE>>, <<BadKey, TRUE>>, <<NoKey, TRUE>>, <<2, FALSE>>}

\* the events endpoints for these callers, the clock standing still
SpecEvents == InitEvents /\ [][EventStep(EventCallers, {1})]_vars


\* ------------------------------------- accounts: the handlers interleaved
\* The accounts handlers as the server runs them for concurrent requests:
\* each request is a process, each step one statement against the database
\* (autocommit). get_or_create is its three statements: the SELECT, the
\* INSERT (refused by the unique constraints), the SELECT after a refusal.
AuthResp(p, status, token) ==
    [NoResp EXCEPT !.op = procs[p].op, !.status = status, !.target = procs[p].user,
                   !.token = token]

\* UserRegistrationView.post up to serializer.save()
RegisterBegin(p, e, pw) ==
    /\ procs[p].pc = "idle"
    /\ IF RegisterAccepted(e, pw)
       THEN /\ Len(users) < MaxUsers
            /\ users' = Append(users, [email |-> e, password |-> pw])
            /\ procs' = [procs EXCEPT ![p] = [Idle EXCEPT !.pc = "get", !.op = "register",
                                                          !.user = Len(users) + 1]]
            /\ UNCHANGED last
       ELSE /\ UNCHANGED <<users, procs>>
            /\ last' = [NoResp EXCEPT !.op = "register", !.status = HTTP_400_BAD_REQUEST,
                                      !.email = e, !.password = pw]
    /\ UNCHANGED <<tokens, nextKey, session, revoked, eventVars>>

\* UserLoginView.post up to login(request, user)
LoginBegin(p, e, pw, browser) ==
    LET u == LoginUser(e, pw) IN
    /\ procs[p].pc = "idle"
    /\ IF u # NoUser
       THEN /\ session' = SessionLogin(browser, u)
            /\ procs' = [procs EXCEPT ![p] = [Idle EXCEPT !.pc = "get", !.op = "login",
                                                          !.user = u]]
            /\ UNCHANGED last
       ELSE /\ UNCHANGED <<session, procs>>
            /\ last' = [NoResp EXCEPT !.op = "login", !.status = HTTP_400_BAD_REQUEST,
                                      !.email = e, !.password = pw]
    /\ UNCHANGED <<users, tokens, nextKey, revoked, eventVars>>

SuccessStatus(p) ==
    IF procs[p].op = "register" THEN HTTP_201_CREATED ELSE HTTP_200_OK

\* get_or_create: self.get(user=user)
TokenGet(p) ==
    /\ procs[p].pc = "get"
    /\ IF TokenRows(tokens, procs[p].user) # {}
       THEN /\ last' = AuthResp(p, SuccessStatus(p), TokenKeyOf(tokens, procs[p].user))
            /\ procs' = [procs EXCEPT ![p] = Idle]
       ELSE /\ procs' = [procs EXCEPT ![p].pc = "create"]
            /\ UNCHANGED last
    /\ UNCHANGED <<authVars, eventVars>>

\* get_or_create: self.create(user=user), with a newly generated key
TokenCreate(p) ==
    LET row == [key |-> nextKey, user |-> procs[p].user] IN
    /\ procs[p].pc = "create"
    /\ nextKey <= MaxKeys
    /\ nextKey' = nextKey + 1
    /\ IF UniqueViolation(tokens, row)
       THEN /\ procs' = [procs EXCEPT ![p].pc = "reget"]
            /\ UNCHANGED <<tokens, last>>
       ELSE /\ tokens' = tokens \cup {row}
            /\ last' = AuthResp(p, SuccessStatus(p), row.key)
            /\ procs' = [procs EXCEPT ![p] = Idle]
    /\ UNCHANGED <<users, session, revoked, eventVars>>

\* get_or_create: self.get(user=user) after the IntegrityError, which is
\* raised again when the row is gone
TokenReget(p) ==
    /\ procs[p].pc = "reget"
    /\ last' = IF TokenRows(tokens, procs[p].user) # {}
               THEN AuthResp(p, SuccessStatus(p), TokenKeyOf(tokens, procs[p].user))
               ELSE AuthResp(p, HTTP_500_INTERNAL_SERVER_ERROR, NoKey)
    /\ procs' = [procs EXCEPT ![p] = Idle]
    /\ UNCHANGED <<authVars, eventVars>>

\* UserLogoutView: authentication and the permission check
LogoutBegin(p, key, browser) ==
    LET c == Authenticate(key, Cookie(browser)) IN
    /\ procs[p].pc = "idle"
    /\ IF c = NoUser
       THEN /\ last' = [NoResp EXCEPT !.op = "logout", !.status = HTTP_401_UNAUTHORIZED,
                                      !.key = key]
            /\ UNCHANGED procs
       ELSE /\ procs' = [procs EXCEPT ![p] = [pc |-> "delete", op |-> "logout", user |-> c,
                                              key |-> key, browser |-> browser]]
            /\ UNCHANGED last
    /\ UNCHANGED <<authVars, eventVars>>

\* UserLogoutView.post
LogoutDelete(p) ==
    LET keys == AuthTokenKeys(procs[p].key, procs[p].user) IN
    /\ procs[p].pc = "delete"
    /\ tokens' = DeleteTokens(tokens, keys)
    /\ session' = SessionLogout(procs[p].browser)
    /\ revoked' = revoked \cup Targeted(keys)
    /\ last' = [NoResp EXCEPT !.op = "logout", !.status = LogoutStatus(keys),
                              !.caller = procs[p].user, !.key = procs[p].key,
                              !.deleted = Cardinality(Targeted(keys))]
    /\ procs' = [procs EXCEPT ![p] = Idle]
    /\ UNCHANGED <<users, nextKey, eventVars>>

\* the interleaved steps, for requests with the emails and passwords given,
\* from the browser or not as browsers says
ConcStep(emails, passwords, browsers) ==
    \/ \E p \in Procs, e \in emails, pw \in passwords \cup {WeakPassword} :
          RegisterBegin(p, e, pw)
    \/ \E p \in Procs, e \in emails, pw \in passwords, browser \in browsers :
          LoginBegin(p, e, pw, browser)
    \/ \E p \in Procs : TokenGet(p)
    \/ \E p \in Procs : TokenCreate(p)
    \/ \E p \in Procs : TokenReget(p)
    \/ \E p \in Procs, key \in PresentableKeys, browser \in browsers :
          LogoutBegin(p, key, browser)
    \/ \E p \in Procs : LogoutDelete(p)

ConcNext == ConcStep(Emails, Passwords, BOOLEAN)

\* the accounts endpoints under concurrent requests of clients that hold
\* tokens and no session, for two emails and one password
SpecConc == Init /\ [][ConcStep({"a@x.io", "b@x.io"}, {"pw1"}, {FALSE})]_vars


\* ----------------------------------------------------- the list, queried
QueryNames == {<<"P", "y", "A">>, <<"A", "r">>, <<"y", "p">>}
QueryDescriptions == {Empty, <<"a", "P", "Y">>}
QueryLocations == {<<"A", "r">>, <<"A", "r", "p", "y">>}

\* events of either user: the first's lack a description, the second's have one
QueryEvents ==
    {[organizer |-> IF d = Empty THEN 1 ELSE 2, name |-> n, date |-> 1,
      location |-> l, description |-> d, categories |-> {},
      created_at |-> 1, updated_at |-> 1] :
        n \in QueryNames, l \in QueryLocations, d \in QueryDescriptions}

\* query strings: a search of one term in either case, of no term, of two
\* terms, of one term and a separator; a location, a longer one, an empty
\* one; a location and a search; a name
QueryParams ==
    { [search |-> py],
      [search |-> <<"P", "Y">>],
      [search |-> <<"a">>],
      [search |-> <<"A", "R">>],
      [search |-> Empty],
      [search |-> <<"y", " ", "a">>],
      [search |-> <<"y", ",">>],
      [location |-> Art],
      [location |-> <<"A", "r", "p", "y">>],
      [location |-> Empty],
      [location |-> <<"A", "r">>, search |-> py],
      [name |-> Art] }

\* the two users of InitEvents and a table of events they created
InitQuery ==
    /\ users = <<[email |-> "a@x.io", password |-> "pw1"],
                 [email |-> "b@x.io", password |-> "pw2"]>>
    /\ tokens = {[key |-> 1, user |-> 1], [key |-> 2, user |-> 2]}
    /\ nextKey = 3
    /\ session = 1
    /\ events \in [1..MaxQueryEvents -> QueryEvents]
    /\ nextEventId = MaxQueryEvents + 1
    /\ procs = [p \in Procs |-> Idle]
    /\ revoked = {}
    /\ last = NoResp

QueryNext ==
    \E browser \in BOOLEAN, params \in QueryParams : List(NoKey, browser, params)

\* the list endpoint over every such table, called from the browser (the
\* first user) and with no credentials
SpecQuery == InitQuery /\ [][QueryNext]_vars


\* ------------------------------------------------------ the list, paged
\* the events of the first user, at two locations in turn
PageEvent(i) ==
    [organizer |-> 1, name |-> Py, date |-> i,
     location |-> IF i % 2 = 1 THEN Art ELSE Py,
     description |-> Empty, categories |-> {},
     created_at |-> i, updated_at |-> i]

\* query strings: no page, the first three pages, a location with and
\* without a page, a page size asked for
PageParams ==
    { <<>>,
      [page |-> 1],
      [page |-> 2],
      [page |-> 3],
      [location |-> Py],
      [location |-> Py, page |-> 2],
      [page_size |-> 5],
      [page_size |-> 5, page |-> 2] }

\* the two users of InitEvents and a table of any number of events
InitPages ==
    /\ users = <<[email |-> "a@x.io", password |-> "pw1"],
                 [email |-> "b@x.io", password |-> "pw2"]>>
    /\ tokens = {[key |-> 1, user |-> 1], [key |-> 2, user |-> 2]}
    /\ nextKey = 3
    /\ session = 1
    /\ \E n \in 0..MaxPageEvents :
          /\ events = [i \in 1..n |-> PageEvent(i)]
          /\ nextEventId = n + 1
    /\ procs = [p \in Procs |-> Idle]
    /\ revoked = {}
    /\ last = NoResp

PagesNext ==
    \E browser \in BOOLEAN, params \in PageParams : List(NoKey, browser, params)

\* the list endpoint over tables of every size, called from the browser (the
\* first user) and with no credentials
SpecPages == InitPages /\ [][PagesNext]_vars


\* -------------------------------------------- events created and read back
\* a body whose text is padded with spaces, and that names an id and a
\* creation time of its own
PaddedBody ==
    [name |-> <<" ", "A", "r", " ">>, date |-> 2, location |-> <<"P", "y", " ">>,
     description |-> <<" ">>, categories |-> {2}, id |-> 9, created_at |-> 9]

RoundTripPayloads == {PlainBody, FullBody, PaddedBody, InvalidBody}

RoundTripNext ==
    \/ \E cl \in EventCallers, data \in RoundTripPayloads, t \in Times :
          Create(cl[1], cl[2], data, t)
    \/ \E cl \in EventCallers, id \in EventIds : Retrieve(cl[1], cl[2], id)

\* Create and Retrieve by the callers of SpecEvents, the clock moving
SpecRoundTrip == InitEvents /\ [][RoundTripNext]_vars


\* ================================================================ claims
DetailOps == {"retrieve", "update", "delete"}
ProtectedOps == {"logout", "profile", "profile_update", "list"}

\* C1: an Update or Delete of an event succeeds only for its organizer; from
\* another authenticated user it is answered 403, from an unauthenticated
\* caller 401, and in both cases the event table is left as it was.
C1_OnlyOrganizerWrites ==
    [][ (last'.op \in {"update", "delete"} /\ last'.target \in DOMAIN events) =>
          LET U == events[last'.target].organizer IN
          /\ last'.status \in {HTTP_200_OK, HTTP_204_NO_CONTENT} => last'.caller = U
          /\ last'.caller \notin {NoUser, U} =>
                 last'.status = HTTP_403_FORBIDDEN /\ events' = events
          /\ last'.caller = NoUser =>
                 last'.status = HTTP_401_UNAUTHORIZED /\ events' = events ]_vars

\* a denied Delete or Update of an existing event, with a second event stored
C1_Witness ==
    /\ last.op \in {"update", "delete"}
    /\ last.status = HTTP_403_FORBIDDEN
    /\ last.target \in DOMAIN events
    /\ events[last.target].organizer # last.caller
    /\ Cardinality(DOMAIN events) = 2

\* C2: once a logout has deleted a token, every later request presenting
\* its key is answered 401, also after its user has logged in again
C2_RevokedTokenRejected ==
    [][ (\E r \in revoked : r.key = last'.key) =>
            last'.status = HTTP_401_UNAUTHORIZED ]_vars

\* a revoked key presented and refused while its user holds a new token
C2_Witness ==
    \E r \in revoked :
        /\ last.key = r.key
        /\ last.status = HTTP_401_UNAUTHORIZED
        /\ TokenRows(tokens, r.user) # {}

C4_RegisterThenLogin ==
    [][ /\ (last'.op = "register" /\ last'.status = HTTP_201_CREATED) =>
              /\ last'.target \in DOMAIN users'
              /\ users'[last'.target] =
                     [email |-> last'.email, password |-> last'.password]
              /\ [key |-> last'.token, user |-> last'.target] \in tokens'
        /\ last'.op \in {"login", "logout"} => users' = users
        /\ last'.op = "login" =>
              \A u \in DOMAIN users :
                  users[u] = [email |-> last'.email, password |-> last'.password] =>
                      /\ last'.status = HTTP_200_OK
                      /\ [key |-> last'.token, user |-> u] \in tokens'
        /\ last'.op \in ProtectedOps =>
              \A t \in tokens :
                  t.key = last'.key =>
                      /\ last'.status # HTTP_401_UNAUTHORIZED
                      /\ last'.caller = t.user ]_vars

\* a login that succeeds after the user's first token was deleted by a logout
C4_Witness ==
    /\ last.op = "login"
    /\ last.status = HTTP_200_OK
    /\ \E r \in revoked : r.user = last.target /\ r.key # last.token
    /\ [key |-> last.token, user |-> last.target] \in tokens

\* C5: for an authenticated caller, Retrieve, Update and Delete of an id with
\* no event (never created, or deleted) answer 404, not 403, whoever calls,
\* and change nothing
C5_UnknownIdIs404 ==
    [][ (last'.op \in DetailOps /\ last'.caller # NoUser
         /\ last'.target \notin DOMAIN events) =>
            last'.status = HTTP_404_NOT_FOUND /\ events' = events ]_vars

\* an Update or Delete of a deleted id, by a user who was not its organizer
\* or by anyone, answered 404
C5_Witness ==
    /\ last.op \in {"update", "delete"}
    /\ last.status = HTTP_404_NOT_FOUND
    /\ last.target < nextEventId
    /\ last.caller = 2

\* C6: Create stores the caller as organizer whatever the body says, and no
\* request changes the organizer of a stored event
C6_OrganizerIsCreator ==
    [][ /\ (last'.op = "create" /\ last'.status = HTTP_201_CREATED) =>
              /\ last'.target \notin DOMAIN events
              /\ events'[last'.target].organizer = last'.caller
        /\ \A i \in DOMAIN events \cap DOMAIN events' :
              events'[i].organizer = events[i].organizer ]_vars

\* the first user has updated its event with the body naming the second user
\* as organizer
C6_Witness ==
    /\ last.op = "update"
    /\ last.status = HTTP_200_OK
    /\ last.caller = 1
    /\ events[last.target].name = Art
    /\ events[last.target].organizer = 1

\* C7: no two users share an email: a registration with a taken email is
\* answered 400 and adds no user and no token, a profile update to the email
\* of another user is answered 400 and leaves the users as they were
C7_EmailsUnique ==
    [][ /\ \A u, v \in DOMAIN users' :
              u # v => users'[u].email # users'[v].email
        /\ (last'.op = "register" /\ EmailTaken(last'.email)) =>
              /\ last'.status = HTTP_400_BAD_REQUEST
              /\ users' = users
              /\ tokens' = tokens
        /\ (last'.op = "profile_update" /\ last'.caller # NoUser
            /\ \E v \in DOMAIN users : v # last'.caller /\ users[v].email = last'.email) =>
              /\ last'.status = HTTP_400_BAD_REQUEST
              /\ users' = users ]_vars

\* a profile update to the email of the other user, refused
C7_Witness ==
    /\ last.op = "profile_update"
    /\ last.status = HTTP_400_BAD_REQUEST
    /\ Len(users) = 2
    /\ \E v \in DOMAIN users : v # last.caller /\ users[v].email = last.email

\* C8: a logout by an authenticated caller answers 200 whether or not the
\* caller has a token, leaves the caller without one and leaves the tokens of
\* the other users as they were
C8_LogoutAlwaysSucceeds ==
    [][ last'.op = "logout" =>
          /\ last'.status \in {HTTP_200_OK, HTTP_401_UNAUTHORIZED}
          /\ last'.status = HTTP_401_UNAUTHORIZED <=> last'.caller = NoUser
          /\ (\E t \in tokens : t.key = last'.key) => last'.status = HTTP_200_OK
          /\ last'.status = HTTP_200_OK =>
                 /\ TokenRows(tokens', last'.caller) = {}
                 /\ \A v \in UserIds :
                        v # last'.caller => TokenRows(tokens', v) = TokenRows(tokens, v)
          /\ last'.status = HTTP_401_UNAUTHORIZED => tokens' = tokens ]_vars

\* a logout from the browser's session answered 200 with no token to delete,
\* while the other user holds one
C8_Witness ==
    /\ last.op = "logout"
    /\ last.status = HTTP_200_OK
    /\ last.key = NoKey
    /\ last.deleted = 0
    /\ \E t \in tokens : t.user # last.caller

\* C9: a Delete by the organizer answers 204 and removes that event and no
\* other, the others unchanged; the id is never stored again, and Retrieve,
\* Update and Delete of it answer 404 from then on
C9_DeleteRemovesExactlyOne ==
    [][ /\ (last'.op = "delete" /\ last'.target \in DOMAIN events
            /\ events[last'.target].organizer = last'.caller) =>
              last'.status = HTTP_204_NO_CONTENT
        /\ (last'.op = "delete" /\ last'.status = HTTP_204_NO_CONTENT) =>
              /\ last'.target \in DOMAIN events
              /\ DOMAIN events' = DOMAIN events \ {last'.target}
              /\ Cardinality(DOMAIN events') = Cardinality(DOMAIN events) - 1
              /\ \A i \in DOMAIN events' : events'[i] = events[i]
        /\ \A i \in 1..(nextEventId - 1) :
              i \notin DOMAIN events =>
                  /\ i \notin DOMAIN events'
                  /\ (last'.op \in DetailOps /\ last'.target = i
                      /\ last'.caller # NoUser) =>
                         last'.status = HTTP_404_NOT_FOUND ]_vars

\* a Delete answered 204 with another event left in the table
C9_Witness ==
    /\ last.op = "delete"
    /\ last.status = HTTP_204_NO_CONTENT
    /\ last.target \notin DOMAIN events
    /\ DOMAIN events # {}

\* a search parameter that is one term: no whitespace, no comma
IsOneTerm(param) == \A k \in DOMAIN param : ~IsSeparator(param[k])

Listed == {last.results[k] : k \in DOMAIN last.results}

\* C10: a List with a search term returns exactly the events whose name
\* starts with the term, or whose description or location contains it,
\* letter case ignored
C10_SearchIsUnion ==
    (/\ last.op = "list"
     /\ last.status = HTTP_200_OK
     /\ DOMAIN last.params = {"search"}
     /\ IsOneTerm(last.params.search)) =>
        /\ Listed \subseteq DOMAIN events
        /\ last.count = Cardinality(Listed)
        /\ \A i \in DOMAIN events :
              i \in Listed <=>
                  \/ IStartsWith(events[i].name, last.params.search)
                  \/ IContains(events[i].description, last.params.search)
                  \/ IContains(events[i].location, last.params.search)

\* a search in capitals that returned one event matching in the description
\* alone and left out another matching nowhere
C10_Witness ==
    /\ last.op = "list"
    /\ last.status = HTTP_200_OK
    /\ last.params = [search |-> <<"P", "Y">>]
    /\ \E i \in Listed :
          /\ ~IStartsWith(events[i].name, py)
          /\ ~IContains(events[i].location, py)
    /\ \E i \in DOMAIN events : i \notin Listed

\* the events stored with the location given
AtLocation(l) == {i \in DOMAIN events : events[i].location = l}

\* C11: a List with location=L returns exactly the events whose location is
\* L, not those whose location contains L: the count is their number and no
\* event returned has another location, whoever organized the events
C11_LocationIsExact ==
    (/\ last.op = "list"
     /\ last.status = HTTP_200_OK
     /\ DOMAIN last.params = {"location"}
     /\ last.params.location # Empty) =>
        /\ Listed = AtLocation(last.params.location)
        /\ last.count = Cardinality(AtLocation(last.params.location))
        /\ \A i \in Listed : events[i].location = last.params.location

\* a List by location that returned an event of the other user and left out
\* an event whose location contains the one asked for
C11_Witness ==
    /\ last.op = "list"
    /\ last.status = HTTP_200_OK
    /\ last.params = [location |-> Art]
    /\ \E i \in Listed : events[i].organizer # last.caller
    /\ \E i \in DOMAIN events :
          /\ i \notin Listed
          /\ IContains(events[i].location, Art)

\* the events stored with the name given
Named(n) == {i \in DOMAIN events : events[i].name = n}

\* C12: a List with name=N returns exactly the events whose name is N: with
\* one event named N among others, the count is 1 and the one result is that
\* event
C12_NameIsExact ==
    (/\ last.op = "list"
     /\ last.status = HTTP_200_OK
     /\ DOMAIN last.params = {"name"}) =>
        /\ Listed = Named(last.params.name)
        /\ last.count = Cardinality(Named(last.params.name))

\* the events a List with the parameters of the last request is about
Matching ==
    IF "location" \in DOMAIN last.params
    THEN AtLocation(last.params.location)
    ELSE DOMAIN events

SubmittedFields == {"name", "date", "location", "description", "categories"}

\* a Retrieve by an authenticated caller of the event the request before
\* it created
ReadBack ==
    /\ last.op = "create"
    /\ last.status = HTTP_201_CREATED
    /\ last'.op = "retrieve"
    /\ last'.target = last.target
    /\ last'.caller # NoUser

\* the id and the timestamps are the server's, the organizer is shown as
\* the email of the creator
ServerAssigned ==
    /\ last'.status = HTTP_200_OK
    /\ last'.body.id = last.target
    /\ last.target = nextEventId - 1
    /\ last'.body.created_at \in Times
    /\ last'.body.updated_at = last'.body.created_at
    /\ last'.body.organizer = users[last.caller].email

====
